---- MODULE Spec2Model ----
(***************************************************************************)
(* Touch-input subsystem of CPU-Draw (src/src/input/TouchHelper.cpp):      *)
(* device registry, per-device reader threads, synthetic input, the        *)
(* injection engine (Upload), gesture recognition and the coordinate       *)
(* transforms.                                                             *)
(*                                                                         *)
(* Arithmetic.  The code computes on float; the model computes on          *)
(* integers and draws its inputs so that every product and quotient the    *)
(* code forms is exact (coordinates are multiples of the scale factors,    *)
(* magnitudes are taken of axis-aligned vectors).  Time is the value of    *)
(* GetCurrentTimeMs(): milliseconds since the epoch.                       *)
(***************************************************************************)
EXTENDS Integers, Sequences, FiniteSets, TLC

(* ------------------------------------------------------------------ *)
(* Program constants                                                  *)
(* ------------------------------------------------------------------ *)
MAX_FINGERS == 10
MIN_CALLBACK_INTERVAL == 4
SYNTH_SLOT == 9
DEFAULT_TOUCH_ID == 19
UPLOAD_CAP == 20
PRESSURE_MAX == 255
tapMaxDistance == 20
tapMaxDuration == 300
doubleTapMaxInterval == 400
longPressMinDuration == 500
swipeMinDistance == 50
pinchMinDistance == 20

(* ------------------------------------------------------------------ *)
(* Bounds of the model                                                *)
(* ------------------------------------------------------------------ *)
\* devices a successful Init registers, at most
MaxDevices == 1
\* reader threads alive at once (those of a closed registry included)
MaxReaders == 2
\* decoded events one read() returns, at most (the code reads up to 64)
MaxBatch == 1
\* value of the clock when the process starts (ms since the epoch)
BootTime == 1000
\* clock ticks a behaviour takes, at most, where uploads are followed
MaxTicks == 1
\* devices in the registry where Upload's finger groups are counted
CapDevices == 3
\* clock ticks a behaviour takes, at most, where deliveries are followed
MaxRateTicks == 2
\* clock ticks a behaviour takes, at most, where gestures are followed
MaxGestureTicks == 2
\* gestures kept in the log of one gesture window, at most
MaxLog == 3

(* ------------------------------------------------------------------ *)
(* My_Vector2                                                         *)
(* ------------------------------------------------------------------ *)
Vec(x, y) == [x |-> x, y |-> y]

VecZero == Vec(0, 0)

VecAdd(a, b) == Vec(a.x + b.x, a.y + b.y)

VecSub(a, b) == Vec(a.x - b.x, a.y - b.y)

VecMul(a, b) == Vec(a.x * b.x, a.y * b.y)

\* the quotient, rounded toward zero where it is not exact
Quot(a, s) == IF a >= 0 THEN a \div s ELSE -((-a) \div s)

VecDiv(a, s) == Vec(Quot(a.x, s), Quot(a.y, s))

LengthSq(a) == a.x * a.x + a.y * a.y

\* integer square root
Isqrt(n) == CHOOSE k \in 0..600 : k * k <= n /\ n < (k + 1) * (k + 1)

Length(a) == Isqrt(LengthSq(a))

(* ------------------------------------------------------------------ *)
(* TouchPoint, TouchDevice, GestureData                               *)
(* ------------------------------------------------------------------ *)
TouchPoint ==
    [pos |-> VecZero, startPos |-> VecZero, velocity |-> VecZero, id |-> 0,
     isDown |-> FALSE, pressure |-> <<1, 1>>, timestamp |-> 0]

Slots == 0..(MAX_FINGERS - 1)

TouchDevice(fd, absX, absY) ==
    [fd |-> fd, scaleX |-> 1, scaleY |-> 1, absX |-> absX, absY |-> absY,
     fingers |-> [s \in Slots |-> TouchPoint]]

GestureData ==
    [type |-> "None", position |-> VecZero, direction |-> VecZero, distance |-> 0,
     scale |-> <<1, 1>>, fingerCount |-> 0]

GestureStateInit ==
    [lastTapTime |-> 0, lastTapPos |-> VecZero, tapCount |-> 0, touchStartTime |-> 0,
     touchStartPos |-> VecZero, isLongPressing |-> FALSE]

InputEvent(t, c, v) == [type |-> t, code |-> c, value |-> v]

VARIABLES
    g_initialized, g_readOnly, g_devices, g_outputFd, g_orientation,
    g_touchScale, g_screenSize, g_gestureEnabled, g_touchCallback,
    g_gestureCallback, g_gestureState, g_lock, isFirstDown, lastCallbackTime,
    now, ticks, reader, app, lastWrite, held, win, closed,
    prevClosed, pin, dlv, syn, xf

configVars == <<g_orientation, g_gestureEnabled, g_touchCallback, g_gestureCallback>>

initVars == <<g_initialized, g_readOnly, g_outputFd, g_touchScale, g_screenSize>>

clockVars == <<now, ticks>>

gestureVars == <<g_gestureState, win, closed, prevClosed, pin, dlv>>

uploadVars == <<isFirstDown, lastWrite>>

vars ==
    <<g_initialized, g_readOnly, g_devices, g_outputFd, g_orientation,
      g_touchScale, g_screenSize, g_gestureEnabled, g_touchCallback,
      g_gestureCallback, g_gestureState, g_lock, isFirstDown, lastCallbackTime,
      now, ticks, reader, app, lastWrite, held, win, closed,
      prevClosed, pin, dlv, syn, xf>>

(* ------------------------------------------------------------------ *)
(* Queries                                                            *)
(* ------------------------------------------------------------------ *)
DeviceIdx == 1..Len(g_devices)

\* the fingers that are down, in registry order (device, then slot)
RECURSIVE DownInDevice(_, _)
DownInDevice(dev, s) ==
    IF s >= MAX_FINGERS THEN <<>>
    ELSE (IF dev.fingers[s].isDown THEN <<dev.fingers[s]>> ELSE <<>>)
         \o DownInDevice(dev, s + 1)

RECURSIVE DownFingers(_, _)
DownFingers(devs, i) ==
    IF i > Len(devs) THEN <<>>
    ELSE DownInDevice(devs[i], 0) \o DownFingers(devs, i + 1)

GetActiveTouches == DownFingers(g_devices, 1)

GetTouchCount == Len(DownFingers(g_devices, 1))

(* ------------------------------------------------------------------ *)
(* Upload: the injection engine                                       *)
(* ------------------------------------------------------------------ *)
\* g_input.downEvent: the two key-down events that precede g_input.event
downEvent ==
    <<InputEvent("EV_KEY", "BTN_TOUCH", 1), InputEvent("EV_KEY", "BTN_TOOL_FINGER", 1)>>

\* the six events of one finger that is down; (int)pos is pos, positions being whole
FingerGroup(finger) ==
    <<InputEvent("EV_ABS", "ABS_X", finger.pos.x),
      InputEvent("EV_ABS", "ABS_Y", finger.pos.y),
      InputEvent("EV_ABS", "ABS_MT_POSITION_X", finger.pos.x),
      InputEvent("EV_ABS", "ABS_MT_POSITION_Y", finger.pos.y),
      InputEvent("EV_ABS", "ABS_MT_TRACKING_ID", finger.id),
      InputEvent("EV_SYN", "SYN_MT_REPORT", 0)>>

\* the loop over the fingers that are down: `if (fingerCount++ > 20) goto finish`
RECURSIVE UploadFingers(_, _)
UploadFingers(fs, fingerCount) ==
    IF fs = <<>> \/ fingerCount > UPLOAD_CAP THEN <<>>
    ELSE FingerGroup(Head(fs)) \o UploadFingers(Tail(fs), fingerCount + 1)

\* an Upload with no finger down that sends the key-up events every time
UploadEmptyKeyUps(first) ==
    <<InputEvent("EV_SYN", "SYN_MT_REPORT", 0),
      InputEvent("EV_KEY", "BTN_TOUCH", 0),
      InputEvent("EV_KEY", "BTN_TOOL_FINGER", 0)>>

\* the events of an Upload with no finger down, given the sticky flag
UploadEmpty(first) ==
    <<InputEvent("EV_SYN", "SYN_MT_REPORT", 0)>>
    \o (IF ~first
        THEN <<InputEvent("EV_KEY", "BTN_TOUCH", 0),
               InputEvent("EV_KEY", "BTN_TOOL_FINGER", 0)>>
        ELSE <<>>)

\* Upload(): the buffer handed to write() and the new value of isFirstDown
UploadResult(devs, first) ==
    LET fs == DownFingers(devs, 1)
        groups == UploadFingers(fs, 0)
        hasTouch == groups # <<>>
        body == (IF hasTouch THEN groups ELSE UploadEmpty(first))
                \o <<InputEvent("EV_SYN", "SYN_REPORT", 0)>>
        first1 == IF hasTouch THEN first ELSE TRUE
    IN  [buf |-> IF hasTouch /\ first1 THEN downEvent \o body ELSE body,
         first |-> IF hasTouch /\ first1 THEN FALSE ELSE first1,
         fingers |-> Len(fs)]

\* what the virtual device has received last: nothing yet
NoWrite == [fd |-> -1, buf |-> <<>>, fingers |-> 0, first |-> TRUE, prev |-> "none"]

\* Upload() as a step: it updates the flag and writes to g_outputFd; the write
\* fails, and nothing is written, when g_outputFd is no open descriptor. The
\* record of the write keeps whether the write before it, to the same virtual
\* device, had a finger down
Upload(devs) ==
    LET u == UploadResult(devs, isFirstDown)
    IN  /\ isFirstDown' = u.first
        /\ lastWrite' = IF g_outputFd > 0
                        THEN [fd |-> g_outputFd, buf |-> u.buf, fingers |-> u.fingers,
                              first |-> isFirstDown,
                              prev |-> IF lastWrite.fd = -1 THEN "none"
                                       ELSE IF lastWrite.fingers > 0 THEN "touch"
                                       ELSE "empty"]
                        ELSE lastWrite

(* ------------------------------------------------------------------ *)
(* RecognizeGesture                                                   *)
(* ------------------------------------------------------------------ *)
\* v.length() < c and v.length() > c, for c >= 0
ShorterThan(v, c) == LengthSq(v) < c * c

LongerThan(v, c) == LengthSq(v) > c * c

RECURSIVE SumPos(_)
SumPos(fs) == IF fs = <<>> THEN VecZero ELSE VecAdd(Head(fs).pos, SumPos(Tail(fs)))

Abs(n) == IF n < 0 THEN -n ELSE n

\* the branch for no active slot, with the duration measured from the report
\* boundary itself
RecognizeEndFromNow(gs, currentTime, avgPos) ==
    LET disp == VecSub(avgPos, gs.touchStartPos)
        isTap == ShorterThan(disp, tapMaxDistance)
        isDouble == /\ currentTime - gs.lastTapTime < doubleTapMaxInterval
                    /\ ShorterThan(VecSub(avgPos, gs.lastTapPos), tapMaxDistance)
    IN  IF isTap /\ isDouble
        THEN [gs |-> [gs EXCEPT !.tapCount = 0, !.isLongPressing = FALSE],
              out |-> <<[GestureData EXCEPT !.type = "DoubleTap", !.position = avgPos]>>]
        ELSE IF isTap
        THEN [gs |-> [gs EXCEPT !.lastTapTime = currentTime, !.lastTapPos = avgPos,
                                !.isLongPressing = FALSE],
              out |-> <<[GestureData EXCEPT !.type = "Tap", !.position = avgPos]>>]
        ELSE [gs |-> [gs EXCEPT !.isLongPressing = FALSE], out |-> <<>>]

\* the branch for no active slot: Tap, DoubleTap or Swipe
RecognizeEnd(gs, currentTime, avgPos) ==
    LET duration == currentTime - gs.touchStartTime
        disp == VecSub(avgPos, gs.touchStartPos)
        distance == Length(disp)
        isTap == duration < tapMaxDuration /\ ShorterThan(disp, tapMaxDistance)
        isDouble == /\ currentTime - gs.lastTapTime < doubleTapMaxInterval
                    /\ ShorterThan(VecSub(avgPos, gs.lastTapPos), tapMaxDistance)
    IN  IF isTap /\ isDouble
        THEN [gs |-> [gs EXCEPT !.tapCount = 0, !.isLongPressing = FALSE],
              out |-> <<[GestureData EXCEPT !.type = "DoubleTap", !.position = avgPos]>>]
        ELSE IF isTap
        THEN [gs |-> [gs EXCEPT !.lastTapTime = currentTime, !.lastTapPos = avgPos,
                                !.isLongPressing = FALSE],
              out |-> <<[GestureData EXCEPT !.type = "Tap", !.position = avgPos]>>]
        ELSE IF LongerThan(disp, swipeMinDistance)
        THEN [gs |-> [gs EXCEPT !.isLongPressing = FALSE],
              out |-> <<[GestureData EXCEPT !.type = "Swipe",
                                            !.position = gs.touchStartPos,
                                            !.direction = VecDiv(disp, distance),
                                            !.distance = distance]>>]
        ELSE [gs |-> [gs EXCEPT !.isLongPressing = FALSE], out |-> <<>>]

\* the branch for one or more active slots: LongPress, then Pinch
RecognizeActive(gs, currentTime, fs) ==
    LET activeCount == Len(fs)
        avgPos == VecDiv(SumPos(fs), activeCount)
        duration == currentTime - gs.touchStartTime
        disp == VecSub(avgPos, gs.touchStartPos)
        long == /\ ~gs.isLongPressing
                /\ duration > longPressMinDuration
                /\ ShorterThan(disp, tapMaxDistance)
        g0 == [GestureData EXCEPT !.fingerCount = activeCount]
        g1 == IF long THEN [g0 EXCEPT !.type = "LongPress", !.position = avgPos] ELSE g0
        currentDist == Length(VecSub(fs[1].pos, fs[2].pos))
        startDist == Length(VecSub(fs[1].startPos, fs[2].startPos))
        pinch == activeCount = 2 /\ Abs(currentDist - startDist) > pinchMinDistance
        g2 == [g1 EXCEPT !.type = "Pinch",
                         !.position = VecDiv(VecAdd(fs[1].pos, fs[2].pos), 2),
                         !.scale = <<currentDist, startDist>>]
    IN  [gs |-> IF long THEN [gs EXCEPT !.isLongPressing = TRUE] ELSE gs,
         out |-> (IF long THEN <<g1>> ELSE <<>>) \o (IF pinch THEN <<g2>> ELSE <<>>)]

\* RecognizeGesture(device): the new recognition context and the gestures it
\* hands to g_gestureCallback, in order
RecognizeGesture(device, gs, currentTime) ==
    IF ~g_gestureEnabled \/ ~g_gestureCallback THEN [gs |-> gs, out |-> <<>>]
    ELSE LET fs == DownInDevice(device, 0)
         IN  IF fs = <<>> THEN RecognizeEnd(gs, currentTime, VecZero)
             ELSE RecognizeActive(gs, currentTime, fs)

(* ------------------------------------------------------------------ *)
(* Threads and the shared lock                                        *)
(* ------------------------------------------------------------------ *)
Readers == 1..MaxReaders

LockFree == <<"free">>

AppThread == <<"app">>

ReaderThread(r) == <<"reader", r>>

\* spinlock::lock and spinlock::unlock
lock(t) == g_lock = LockFree /\ g_lock' = t

unlock == g_lock' = LockFree

\* a reader thread that was never started, or has returned
NoReader == [pc |-> "none", dev |-> 0, slot |-> 0, left |-> 0, stale |-> FALSE, raw |-> 0]

\* the application thread outside Down, Move and Up; inside a Swipe, `plan` holds
\* its arguments and `done` what each call made so far has uploaded
AppIdle ==
    [pc |-> "idle", x |-> 0, y |-> 0, id |-> 0, rest |-> <<>>, plan |-> <<>>,
     done |-> <<>>]

NoWindow ==
    [active |-> FALSE, arrivals |-> 0, t0 |-> 0, p0 |-> VecZero, last |-> VecZero,
     moved |-> FALSE, at |-> 0, log |-> <<>>]

NoClosed ==
    [valid |-> FALSE, single |-> FALSE, moved |-> FALSE, t0 |-> 0, p0 |-> VecZero,
     last |-> VecZero, end |-> 0, log |-> <<>>, term |-> <<>>]

NoPin == [firsts |-> <<>>, cur |-> <<>>, out |-> <<>>, was |-> FALSE]

NoDelivery ==
    [valid |-> FALSE, n |-> 0, gap |-> 0, limited |-> FALSE, observer |-> FALSE,
     readOnly |-> FALSE, called |-> FALSE, arg |-> <<>>, reg |-> <<>>,
     uploaded |-> FALSE,
     enabled |-> FALSE, idle |-> FALSE, wasLong |-> FALSE]

NoSyn ==
    [phase |-> "none", t0 |-> 0, pos |-> VecZero, end |-> 0, seen |-> FALSE,
     log |-> <<>>]

NoXf == [valid |-> FALSE, p |-> VecZero, screen |-> VecZero, back |-> VecZero]

Init ==
    /\ g_initialized = FALSE
    /\ g_readOnly = FALSE
    /\ g_devices = <<>>
    /\ g_outputFd = -1
    /\ g_orientation = 0
    /\ g_touchScale = VecZero
    /\ g_screenSize = VecZero
    /\ g_gestureEnabled = FALSE
    /\ g_touchCallback = FALSE
    /\ g_gestureCallback = FALSE
    /\ g_gestureState = GestureStateInit
    /\ g_lock = LockFree
    /\ isFirstDown = TRUE
    /\ lastCallbackTime = 0
    /\ now = BootTime
    /\ ticks = 0
    /\ reader = [r \in Readers |-> NoReader]
    /\ app = AppIdle
    /\ lastWrite = NoWrite
    /\ held = {}
    /\ win = NoWindow
    /\ pin = NoPin
    /\ dlv = NoDelivery
    /\ closed = NoClosed
    /\ prevClosed = NoClosed
    /\ syn = NoSyn
    /\ xf = NoXf

(* ------------------------------------------------------------------ *)
(* The clock                                                          *)
(* ------------------------------------------------------------------ *)
\* time passes: gettimeofday() returns d ms more than before
Tick(d, limit) ==
    /\ ticks < limit
    /\ now' = now + d
    /\ ticks' = ticks + 1
    /\ UNCHANGED <<configVars, initVars, gestureVars, uploadVars, g_devices, g_lock,
                   lastCallbackTime, reader, app, held, syn, xf>>

(* ------------------------------------------------------------------ *)
(* Init and Close                                                     *)
(* ------------------------------------------------------------------ *)
Alive(r) == reader[r].pc # "none"

\* g_devices.clear(): every reference a running reader holds now dangles
ClearedReaders == [r \in Readers |-> IF Alive(r) THEN [reader[r] EXCEPT !.stale = TRUE]
                                     ELSE reader[r]]

\* Close()
Close ==
    /\ app.pc = "idle"
    /\ IF g_initialized
       THEN /\ g_initialized' = FALSE
            /\ g_outputFd' = -1
            /\ g_devices' = <<>>
            /\ reader' = ClearedReaders
            /\ held' = {}
       ELSE UNCHANGED <<g_initialized, g_outputFd, g_devices, reader, held>>
    /\ UNCHANGED <<configVars, g_readOnly, g_touchScale, g_screenSize, clockVars,
                   gestureVars, uploadVars, g_lock, lastCallbackTime, app, syn, xf>>

\* the devices Init registers: candidate i is /dev/input/event(i-1), opened as fd i+2
Registered(prof) ==
    [i \in 1..Len(prof) |-> TouchDevice(i + 2, prof[i].x, prof[i].y)]

\* the scale factors Init sets once the virtual device exists
Scaled(devs) ==
    [i \in 1..Len(devs) |->
        [devs[i] EXCEPT !.scaleX = Quot(devs[1].absX, devs[i].absX),
                        !.scaleY = Quot(devs[1].absY, devs[i].absY)]]

\* the thread ids pthread_create hands out: the n smallest that are free
Spawned(free, n) ==
    CHOOSE f \in [1..n -> free] :
        /\ \A i, j \in 1..n : i < j => f[i] < f[j]
        /\ \A q \in free : (\A i \in 1..n : f[i] # q) => (\A i \in 1..n : f[i] < q)

\* Init(screenSize, readOnly); prof lists the axis ranges of the qualifying
\* devices, outcome says how far Init gets
TouchInit(screenSize, readOnly, prof, outcome) ==
    LET n == Len(prof)
        closedFd == IF g_initialized THEN -1 ELSE g_outputFd
        free == {r \in Readers : ~Alive(r)}
        fails == outcome # "ok" \/ n = 0
        actualSize == IF screenSize.x > screenSize.y
                      THEN Vec(screenSize.y, screenSize.x) ELSE screenSize
        f == Spawned(free, n)
    IN  /\ app.pc = "idle"
        /\ outcome \in (IF readOnly THEN {"nodir", "ok"}
                        ELSE {"nodir", "nouinput", "nocreate", "ok"})
        /\ (n = 0) => outcome \in {"nodir", "ok"}
        /\ ~fails => Cardinality(free) >= n
        /\ g_readOnly' = readOnly
        /\ g_screenSize' = IF screenSize.x > screenSize.y THEN screenSize
                           ELSE Vec(screenSize.y, screenSize.x)
        /\ g_devices' = IF outcome = "nodir" THEN <<>>
                        ELSE IF outcome = "ok" THEN Scaled(Registered(prof))
                        ELSE Registered(prof)
        /\ g_outputFd' = IF outcome = "nodir" \/ n = 0 \/ readOnly THEN closedFd
                         ELSE IF outcome = "nouinput" THEN -1
                         ELSE n + 3
        /\ g_initialized' = ~fails
        /\ g_touchScale' = IF fails THEN g_touchScale
                           ELSE Vec(Quot(prof[1].x, actualSize.x),
                                    Quot(prof[1].y, actualSize.y))
        /\ reader' = IF fails THEN ClearedReaders
                     ELSE [r \in Readers |->
                             IF \E i \in 1..n : f[i] = r
                             THEN [pc |-> "loop", dev |-> CHOOSE i \in 1..n : f[i] = r,
                                   slot |-> 0, left |-> 0, stale |-> FALSE, raw |-> 0]
                             ELSE ClearedReaders[r]]
        /\ held' = {}
        \* a virtual device just created has received nothing
        /\ lastWrite' = IF outcome = "ok" /\ n > 0 /\ ~readOnly THEN NoWrite
                        ELSE lastWrite
        /\ UNCHANGED <<configVars, clockVars, gestureVars, isFirstDown, g_lock,
                       lastCallbackTime, app, syn, xf>>

(* ------------------------------------------------------------------ *)
(* Configuration                                                      *)
(* ------------------------------------------------------------------ *)
SetTouchCallback(callback) ==
    /\ app.pc = "idle"
    /\ g_touchCallback' = callback
    /\ UNCHANGED <<g_orientation, g_gestureEnabled, g_gestureCallback, initVars,
                   clockVars, gestureVars, uploadVars, g_devices, g_lock,
                   lastCallbackTime, reader, app, held, syn, xf>>

SetGestureCallback(callback) ==
    /\ app.pc = "idle"
    /\ g_gestureCallback' = callback
    /\ UNCHANGED <<g_orientation, g_gestureEnabled, g_touchCallback, initVars,
                   clockVars, gestureVars, uploadVars, g_devices, g_lock,
                   lastCallbackTime, reader, app, held, syn, xf>>

EnableGestureRecognition(enable) ==
    /\ app.pc = "idle"
    /\ g_gestureEnabled' = enable
    /\ UNCHANGED <<g_orientation, g_touchCallback, g_gestureCallback, initVars,
                   clockVars, gestureVars, uploadVars, g_devices, g_lock,
                   lastCallbackTime, reader, app, held, syn, xf>>

SetOrientation(orientation) ==
    /\ app.pc = "idle"
    /\ g_orientation' = orientation % 4
    /\ UNCHANGED <<g_gestureEnabled, g_touchCallback, g_gestureCallback, initVars,
                   clockVars, gestureVars, uploadVars, g_devices, g_lock,
                   lastCallbackTime, reader, app, held, syn, xf>>

(* ------------------------------------------------------------------ *)
(* Coordinate transforms                                              *)
(* ------------------------------------------------------------------ *)
TouchToScreen(touchCoord) ==
    LET xt == Quot(touchCoord.x, g_touchScale.x)
        yt == Quot(touchCoord.y, g_touchScale.y)
    IN  CASE g_orientation = 1 -> Vec(yt, g_screenSize.y - xt)
          [] g_orientation = 2 -> Vec(g_screenSize.x - xt, g_screenSize.y - yt)
          [] g_orientation = 3 -> Vec(g_screenSize.x - yt, xt)
          [] OTHER -> Vec(xt, yt)

ScreenToTouch(screenCoord) == VecMul(screenCoord, g_touchScale)

\* the application maps a touch coordinate to the screen and back
RoundTrip(p) ==
    /\ app.pc = "idle"
    /\ g_initialized
    /\ xf' = [valid |-> TRUE, p |-> p, screen |-> TouchToScreen(p),
              back |-> ScreenToTouch(TouchToScreen(p))]
    /\ UNCHANGED <<configVars, initVars, clockVars, gestureVars, uploadVars,
                   g_devices, g_lock, lastCallbackTime, reader, app, held, syn>>

(* ------------------------------------------------------------------ *)
(* TouchReadThread                                                    *)
(* ------------------------------------------------------------------ *)
IsAbs(e, code) == e.type = "EV_ABS" /\ e.code = code

IsReport(e) == e.type = "EV_SYN" /\ e.code = "SYN_REPORT"

\* an index outside the array selects the nearest slot
SelectSlotNearest(value) ==
    IF value < 0 THEN 0 ELSE IF value >= MAX_FINGERS THEN MAX_FINGERS - 1 ELSE value

\* ABS_MT_SLOT: the slot an index selects
SelectSlot(value) == IF value < 0 \/ value >= MAX_FINGERS THEN 0 ELSE value

\* ABS_MT_TRACKING_ID on the current slot
TrackingId(finger, deviceIndex, currentSlot, value, t) ==
    IF value = -1 THEN [finger EXCEPT !.isDown = FALSE]
    ELSE [finger EXCEPT !.id = (deviceIndex * 2 + 1) * MAX_FINGERS + currentSlot,
                        !.isDown = TRUE,
                        !.startPos = finger.pos,
                        !.timestamp = t]

\* one EV_ABS event other than ABS_MT_SLOT, applied to the thread's device
DecodeAbs(device, deviceIndex, currentSlot, e, t) ==
    CASE IsAbs(e, "ABS_MT_TRACKING_ID") ->
           [device EXCEPT !.fingers[currentSlot] =
               TrackingId(@, deviceIndex, currentSlot, e.value, t)]
      [] IsAbs(e, "ABS_MT_POSITION_X") ->
           [device EXCEPT !.fingers[currentSlot].pos.x = e.value * device.scaleX]
      [] IsAbs(e, "ABS_MT_POSITION_Y") ->
           [device EXCEPT !.fingers[currentSlot].pos.y = e.value * device.scaleY]
      [] IsAbs(e, "ABS_MT_PRESSURE") ->
           [device EXCEPT !.fingers[currentSlot].pressure = <<e.value, PRESSURE_MAX>>]
      [] OTHER -> device

\* SYN_REPORT: the velocity of every finger that is down
ReportVelocity(device, t) ==
    [device EXCEPT !.fingers =
        [j \in Slots |->
            IF device.fingers[j].isDown /\ t - device.fingers[j].timestamp > 0
            THEN [device.fingers[j] EXCEPT
                     !.velocity = VecSub(device.fingers[j].pos, device.fingers[j].startPos)]
            ELSE device.fingers[j]]]

\* the entries of the registry: the device handle of each
Registry(devs) == [i \in 1..Len(devs) |-> devs[i].fd]

\* a report boundary that the rate limit never stops
DeliveryUnlimited(devs) ==
    [limited |-> FALSE,
     called |-> g_touchCallback,
     arg |-> IF g_touchCallback THEN Registry(devs) ELSE <<>>,
     uploaded |-> ~g_touchCallback /\ ~g_readOnly]

\* a report boundary that uploads whether or not an observer is registered
DeliveryMirrored(devs) ==
    LET limited == now - lastCallbackTime < MIN_CALLBACK_INTERVAL
    IN  [limited |-> limited,
         called |-> ~limited /\ g_touchCallback,
         arg |-> IF ~limited /\ g_touchCallback THEN Registry(devs) ELSE <<>>,
         uploaded |-> ~limited /\ ~g_readOnly]

\* SYN_REPORT: what the report boundary delivers, by the rate limit, the
\* observer and the mode; the observer is handed &g_devices
Delivery(devs) ==
    LET limited == now - lastCallbackTime < MIN_CALLBACK_INTERVAL
    IN  [limited |-> limited,
         called |-> ~limited /\ g_touchCallback,
         arg |-> IF ~limited /\ g_touchCallback THEN Registry(devs) ELSE <<>>,
         uploaded |-> ~limited /\ ~g_touchCallback /\ ~g_readOnly]

\* SYN_REPORT: the rate-limited delivery, to the observer or to the virtual device
Deliver(devs) ==
    LET d == Delivery(devs)
    IN  /\ lastCallbackTime' = IF d.limited THEN lastCallbackTime ELSE now
        /\ IF d.uploaded THEN Upload(devs) ELSE UNCHANGED uploadVars

\* the report boundary a reader thread has just processed, and the time between
\* the last two deliveries
DeliveryStep(h, devs, device) ==
    LET d == Delivery(devs)
        delivers == d.called \/ d.uploaded
        enabled == g_gestureEnabled /\ g_gestureCallback
    IN  [valid |-> TRUE,
         n |-> IF delivers /\ h.n < 2 THEN h.n + 1 ELSE h.n,
         gap |-> IF delivers THEN now - lastCallbackTime ELSE h.gap,
         limited |-> d.limited,
         observer |-> g_touchCallback,
         readOnly |-> g_readOnly,
         called |-> d.called,
         arg |-> d.arg,
         reg |-> IF d.called THEN Registry(devs) ELSE <<>>,
         uploaded |-> d.uploaded,
         enabled |-> enabled,
         idle |-> enabled /\ DownInDevice(device, 0) = <<>>,
         wasLong |-> enabled /\ g_gestureState.isLongPressing]

\* `while (g_initialized)`: the thread goes on to read(), or returns
ReaderLoop(r) ==
    /\ reader[r].pc = "loop"
    /\ reader' = [reader EXCEPT ![r] = IF g_initialized THEN [@ EXCEPT !.pc = "read"]
                                       ELSE NoReader]
    /\ UNCHANGED <<configVars, initVars, clockVars, gestureVars, uploadVars,
                   g_devices, g_lock, lastCallbackTime, app, held, syn, xf>>

\* the memory `device` refers to is an element of the registry
InRegistry(r) == reader[r].dev <= Len(g_devices)

\* read() returns n whole events; n = 0 stands for a failed or partial read
ReaderRead(r, n) ==
    /\ reader[r].pc = "read"
    /\ n > 0 => InRegistry(r)
    /\ reader' = [reader EXCEPT ![r].pc = IF n > 0 THEN "lock" ELSE "loop",
                                ![r].left = n]
    /\ UNCHANGED <<configVars, initVars, clockVars, gestureVars, uploadVars,
                   g_devices, g_lock, lastCallbackTime, app, held, syn, xf>>

\* g_lock.lock() before the batch
ReaderLock(r) ==
    /\ reader[r].pc = "lock"
    /\ lock(ReaderThread(r))
    /\ reader' = [reader EXCEPT ![r].pc = "proc"]
    /\ UNCHANGED <<configVars, initVars, clockVars, gestureVars, uploadVars,
                   g_devices, lastCallbackTime, app, held, syn, xf>>

\* the batch ends without g_lock.unlock()
ReaderUnlockKept(r) ==
    /\ reader[r].pc = "proc"
    /\ reader[r].left = 0
    /\ UNCHANGED g_lock
    /\ reader' = [reader EXCEPT ![r].pc = "loop"]
    /\ UNCHANGED <<configVars, initVars, clockVars, gestureVars, uploadVars,
                   g_devices, lastCallbackTime, app, held, syn, xf>>

\* g_lock.unlock() after the batch
ReaderUnlock(r) ==
    /\ reader[r].pc = "proc"
    /\ reader[r].left = 0
    /\ unlock
    /\ reader' = [reader EXCEPT ![r].pc = "loop"]
    /\ UNCHANGED <<configVars, initVars, clockVars, gestureVars, uploadVars,
                   g_devices, lastCallbackTime, app, held, syn, xf>>

\* what a dangling `device` reads when its memory is no element of the registry
DeadDevice == TouchDevice(-1, 0, 0)

\* whether the thread's writes reach the registry: they do for a thread of the
\* current registry; a thread of an earlier one writes through a dangling
\* reference, into the element that took the place of its own or into dead memory
Hits(r) ==
    IF ~reader[r].stale THEN {TRUE}
    ELSE IF InRegistry(r) THEN {TRUE, FALSE}
    ELSE {FALSE}

\* the gesture window of the first device, as the report boundaries show it
WindowStep(w, fs, out, t) ==
    IF fs # <<>>
    THEN IF ~w.active
         THEN [w EXCEPT !.active = TRUE, !.p0 = fs[1].pos, !.last = fs[1].pos,
                        !.moved = FALSE, !.at = t, !.log = out]
         ELSE [w EXCEPT !.last = fs[1].pos, !.moved = @ \/ fs[1].pos # w.p0,
                        !.at = t, !.log = @ \o out]
    ELSE NoWindow

ClosedStep(w, fs, out, t) ==
    IF fs = <<>> /\ w.active
    THEN [valid |-> TRUE, single |-> w.arrivals = 1, moved |-> w.moved, t0 |-> w.t0,
          p0 |-> w.p0, last |-> w.last, end |-> t, log |-> w.log, term |-> out]
    ELSE closed

\* the slots of the first device that are down at a report boundary, each with
\* the position of its first report boundary since it arrived and its position
\* now, the gestures the boundary delivered, and whether any slot was down at
\* the report boundary before it
PinStep(p, device, out) ==
    LET down == {s \in Slots : device.fingers[s].isDown}
    IN  [firsts |-> [s \in down |-> IF s \in DOMAIN p.firsts THEN p.firsts[s]
                                    ELSE device.fingers[s].pos],
         cur |-> [s \in down |-> device.fingers[s].pos],
         out |-> out,
         was |-> DOMAIN p.cur # {}]

\* a contact arrives in a slot: its first report boundary is still to come
PinArrival(p, slot) ==
    [p EXCEPT !.firsts = [s \in DOMAIN p.firsts \ {slot} |-> p.firsts[s]]]

\* one decoded event of the batch
ReaderEvent(r, e) ==
    /\ reader[r].pc = "proc"
    /\ reader[r].left > 0
    /\ IsReport(e) => Len(win.log) < MaxLog /\ Len(syn.log) < MaxLog
    \* the kernel lifts only a contact it has reported down in that slot
    /\ (IsAbs(e, "ABS_MT_TRACKING_ID") /\ e.value = -1)
       => <<reader[r].dev, reader[r].raw>> \in held
    /\ \E hit \in Hits(r) :
        LET me == reader[r]
            device == IF hit THEN g_devices[me.dev] ELSE DeadDevice
            device1 == IF IsReport(e) THEN ReportVelocity(device, now)
                       ELSE DecodeAbs(device, me.dev - 1, me.slot, e, now)
            devs1 == IF hit THEN [g_devices EXCEPT ![me.dev] = device1] ELSE g_devices
            rec == IF IsReport(e) /\ g_gestureEnabled
                   THEN RecognizeGesture(device1, g_gestureState, now)
                   ELSE [gs |-> g_gestureState, out |-> <<>>]
            fs == DownInDevice(device1, 0)
            first == hit /\ me.dev = 1 /\ g_gestureEnabled
            arrival == IsAbs(e, "ABS_MT_TRACKING_ID") /\ e.value # -1
            lift == IsAbs(e, "ABS_MT_TRACKING_ID") /\ e.value = -1
        IN  /\ g_devices' = devs1
            /\ reader' = [reader EXCEPT
                   ![r].left = @ - 1,
                   ![r].slot = IF IsAbs(e, "ABS_MT_SLOT") THEN SelectSlot(e.value) ELSE @,
                   ![r].raw = IF IsAbs(e, "ABS_MT_SLOT") THEN e.value ELSE @]
            /\ g_gestureState' = rec.gs
            /\ IF IsReport(e) THEN Deliver(devs1)
               ELSE UNCHANGED <<lastCallbackTime, uploadVars>>
            /\ dlv' = IF IsReport(e) THEN DeliveryStep(dlv, devs1, device1) ELSE dlv
            /\ held' = IF hit /\ arrival THEN held \cup {<<me.dev, me.raw>>}
                       ELSE IF hit /\ lift THEN held \ {<<me.dev, me.raw>>}
                       ELSE held
            /\ win' = IF first /\ IsReport(e) THEN WindowStep(win, fs, rec.out, now)
                      ELSE IF first /\ arrival
                      THEN [win EXCEPT !.arrivals = IF @ < 2 THEN @ + 1 ELSE @,
                                       !.t0 = IF win.arrivals = 0 THEN now ELSE @]
                      ELSE win
            /\ closed' = IF first /\ IsReport(e) THEN ClosedStep(win, fs, rec.out, now)
                         ELSE closed
            /\ pin' = IF first /\ IsReport(e) THEN PinStep(pin, device1, rec.out)
                      ELSE IF first /\ arrival THEN PinArrival(pin, me.slot)
                      ELSE pin
            /\ prevClosed' = IF first /\ IsReport(e) /\ fs = <<>> /\ win.active
                             THEN closed ELSE prevClosed
            /\ syn' = IF syn.phase # "none"
                      THEN [syn EXCEPT !.log = @ \o rec.out,
                                       !.seen = @ \/ (IsReport(e) /\ syn.phase = "done")]
                      ELSE syn
    /\ UNCHANGED <<configVars, initVars, clockVars, g_lock, app, xf>>

(* ------------------------------------------------------------------ *)
(* Synthetic input: Down, Move, Up                                    *)
(* ------------------------------------------------------------------ *)
SynContact == <<"syn">>

\* the application calls Down, Move or Up: `if (g_devices.empty()) return;`
Call(op, x, y, touchId) ==
    /\ app.pc = "idle"
    /\ app' = IF g_devices = <<>> THEN app
              ELSE [AppIdle EXCEPT !.pc = op, !.x = x, !.y = y, !.id = touchId]
    /\ UNCHANGED <<configVars, initVars, clockVars, gestureVars, uploadVars,
                   g_devices, g_lock, lastCallbackTime, reader, held, syn, xf>>

\* g_lock.lock() in Down
DownEnterNoLock ==
    /\ app.pc = "down"
    /\ UNCHANGED g_lock
    /\ app' = [app EXCEPT !.pc = "in_down"]
    /\ UNCHANGED <<configVars, initVars, clockVars, gestureVars, uploadVars,
                   g_devices, lastCallbackTime, reader, held, syn, xf>>

DownEnter ==
    /\ app.pc = "down"
    /\ lock(AppThread)
    /\ app' = [app EXCEPT !.pc = "in_down"]
    /\ UNCHANGED <<configVars, initVars, clockVars, gestureVars, uploadVars,
                   g_devices, lastCallbackTime, reader, held, syn, xf>>

\* g_lock.lock() in Move
MoveEnter ==
    /\ app.pc = "move"
    /\ lock(AppThread)
    /\ app' = [app EXCEPT !.pc = "in_move"]
    /\ UNCHANGED <<configVars, initVars, clockVars, gestureVars, uploadVars,
                   g_devices, lastCallbackTime, reader, held, syn, xf>>

\* g_lock.lock() in Up
UpEnter ==
    /\ app.pc = "up"
    /\ lock(AppThread)
    /\ app' = [app EXCEPT !.pc = "in_up"]
    /\ UNCHANGED <<configVars, initVars, clockVars, gestureVars, uploadVars,
                   g_devices, lastCallbackTime, reader, held, syn, xf>>

\* Down, Move or Up returns: to the caller, or into the next call of the TouchAt
\* or Swipe that made it, whose `if (g_devices.empty()) return;` finds the
\* registry as this call left it
Return(a) ==
    IF a.rest = <<>> THEN AppIdle
    ELSE [a EXCEPT !.pc = Head(a.rest)[1], !.x = Head(a.rest)[2],
                   !.y = Head(a.rest)[3], !.id = Head(a.rest)[4],
                   !.rest = Tail(a.rest)]

\* the position in the last finger group of a buffer, the group of the last
\* slot that is down
LastGroupPos(buf) == Vec(buf[Len(buf) - 6].value, buf[Len(buf) - 5].value)

\* inside a Swipe: the call `op` has run Upload, which wrote `w` if the output
\* descriptor is open
Logged(a, op, w) ==
    IF a.plan = <<>> THEN a
    ELSE [a EXCEPT !.done = Append(@, [op |-> op,
                                       wrote |-> g_outputFd > 0,
                                       pos |-> IF g_outputFd > 0 /\ w.fingers > 0
                                               THEN LastGroupPos(w.buf)
                                               ELSE VecZero])]

\* the application calls a function that makes the calls of `calls` in turn;
\* with no device registered each of them returns at once
Planned(calls, plan) ==
    /\ app.pc = "idle"
    /\ app' = IF g_devices = <<>> THEN app
              ELSE Return([AppIdle EXCEPT !.rest = calls, !.plan = plan])
    /\ UNCHANGED <<configVars, initVars, clockVars, gestureVars, uploadVars,
                   g_devices, g_lock, lastCallbackTime, reader, held, syn, xf>>

\* a function other than Swipe that makes the calls of `calls` in turn
Script(calls) == Planned(calls, <<>>)

\* TouchAt(pos, durationMs): Down(pos.x, pos.y), sleep, Up(); touchId defaults to 0
TouchAt(pos, durationMs) ==
    Script(<< <<"down", pos.x, pos.y, 0>>, <<"up", 0, 0, 0>> >>)

\* the Move calls of the loop `for (int i = 1; i < steps; i++)` of Swipe
SwipeMoves(start, end, steps) ==
    [i \in 1..(steps - 1) |->
        <<"move", start.x + Quot(end.x - start.x, steps) * i,
                  start.y + Quot(end.y - start.y, steps) * i, 0>>]

\* Swipe(start, end, durationMs)
Swipe(start, end, durationMs) ==
    LET steps == durationMs \div 16
    IN  Planned(<< <<"down", start.x, start.y, 0>> >>
                \o SwipeMoves(start, end, steps)
                \o << <<"move", end.x, end.y, 0>>, <<"up", 0, 0, 0>> >>,
                <<start, end, durationMs>>)

\* the slot Down writes
DownTouch(touch, x, y, touchId, t) ==
    [touch EXCEPT !.id = IF touchId >= 0 THEN touchId ELSE DEFAULT_TOUCH_ID,
                  !.pos = VecMul(Vec(x, y), g_touchScale),
                  !.startPos = VecMul(Vec(x, y), g_touchScale),
                  !.isDown = TRUE,
                  !.timestamp = t]

\* Down, from the lock taken to the lock released
DownBody ==
    /\ app.pc = "in_down"
    /\ g_devices' = [g_devices EXCEPT ![1].fingers[SYNTH_SLOT] =
                        DownTouch(@, app.x, app.y, app.id, now)]
    /\ Upload(g_devices')
    /\ unlock
    /\ app' = Return(Logged(app, "down", lastWrite'))
    /\ held' = held \cup {SynContact}
    /\ syn' = IF g_gestureEnabled
              THEN [phase |-> "down", t0 |-> now, pos |-> Vec(app.x, app.y), end |-> 0,
                    seen |-> FALSE, log |-> <<>>]
              ELSE syn
    /\ UNCHANGED <<configVars, initVars, clockVars, gestureVars, lastCallbackTime,
                   reader, xf>>

\* Move, from the lock taken to the lock released
MoveBody ==
    /\ app.pc = "in_move"
    /\ g_devices' = [g_devices EXCEPT ![1].fingers[SYNTH_SLOT].pos =
                        VecMul(Vec(app.x, app.y), g_touchScale)]
    /\ Upload(g_devices')
    /\ unlock
    /\ app' = Return(Logged(app, "move", lastWrite'))
    /\ UNCHANGED <<configVars, initVars, clockVars, gestureVars, lastCallbackTime,
                   reader, held, syn, xf>>

\* Up, from the lock taken to the lock released
UpBody ==
    /\ app.pc = "in_up"
    /\ g_devices' = [g_devices EXCEPT ![1].fingers[SYNTH_SLOT].isDown = FALSE]
    /\ Upload(g_devices')
    /\ unlock
    /\ app' = Return(Logged(app, "up", lastWrite'))
    /\ held' = held \ {SynContact}
    /\ syn' = IF syn.phase = "down" THEN [syn EXCEPT !.phase = "done", !.end = now]
              ELSE syn
    /\ UNCHANGED <<configVars, initVars, clockVars, gestureVars, lastCallbackTime,
                   reader, xf>>

(* ------------------------------------------------------------------ *)
(* Steps of the threads, over given inputs                            *)
(* ------------------------------------------------------------------ *)
\* the reader threads, decoding events drawn from `events`
ReaderSteps(events) ==
    \/ \E r \in Readers : ReaderLoop(r)
    \/ \E r \in Readers, n \in 0..MaxBatch : ReaderRead(r, n)
    \/ \E r \in Readers : ReaderLock(r)
    \/ \E r \in Readers, e \in events : ReaderEvent(r, e)
    \/ \E r \in Readers : ReaderUnlock(r)

\* the application thread in Down, Move and Up, called with arguments from `calls`
SynthSteps(calls) ==
    \/ \E c \in calls : Call(c[1], c[2], c[3], c[4])
    \/ DownEnter
    \/ MoveEnter
    \/ UpEnter
    \/ DownBody
    \/ MoveBody
    \/ UpBody

\* axis ranges (absX.maximum, absY.maximum) of a device
WideRange == Vec(100, 200)

\* the qualifying devices a scan finds, all of one range
Profiles == UNION {[1..n -> {WideRange}] : n \in 0..MaxDevices}

ScreenSizes == {Vec(50, 100), Vec(100, 50)}

Report == InputEvent("EV_SYN", "SYN_REPORT", 0)

Tracking(v) == InputEvent("EV_ABS", "ABS_MT_TRACKING_ID", v)

SlotIndex(v) == InputEvent("EV_ABS", "ABS_MT_SLOT", v)

PositionX(v) == InputEvent("EV_ABS", "ABS_MT_POSITION_X", v)

PositionY(v) == InputEvent("EV_ABS", "ABS_MT_POSITION_Y", v)

(* ------------------------------------------------------------------ *)
(* SpecLock: every thread that takes the shared lock                  *)
(* ------------------------------------------------------------------ *)
LockEvents == {Tracking(7), Report}

LockCalls == {<<"down", 10, 0, 0>>, <<"move", 20, 0, 0>>, <<"up", 0, 0, 0>>}

NextLock ==
    \/ \E sz \in ScreenSizes, prof \in Profiles : TouchInit(sz, TRUE, prof, "ok")
    \/ Close
    \/ ReaderSteps(LockEvents)
    \/ SynthSteps(LockCalls)

SpecLock == Init /\ [][NextLock]_vars

(* ------------------------------------------------------------------ *)
(* SpecRegistry: the slots of the registry, ingested and synthetic    *)
(* ------------------------------------------------------------------ *)
RegistryEvents == {SlotIndex(0), SlotIndex(12), Tracking(7), Tracking(-1)}

RegistryCalls ==
    {<<"down", 10, 0, id>> : id \in {-1, 0, 10}}
    \cup {<<"move", 10, 0, 0>>, <<"up", 0, 0, 0>>}

NextRegistry ==
    \/ \E sz \in ScreenSizes, prof \in Profiles : TouchInit(sz, TRUE, prof, "ok")
    \/ Close
    \/ ReaderSteps(RegistryEvents)
    \/ SynthSteps(RegistryCalls)

SpecRegistry == Init /\ [][NextRegistry]_vars

(* ------------------------------------------------------------------ *)
(* SpecUpload: grab-and-inject mode, what Upload writes               *)
(* ------------------------------------------------------------------ *)
\* one device; the application initializes again only after the reader thread
\* of the session before has left its loop
UploadEvents == {Tracking(7), Tracking(-1), Report}

UploadCalls == {<<"down", 10, 0, 0>>, <<"move", 20, 0, 0>>, <<"up", 0, 0, 0>>}

NextUpload ==
    \/ /\ \A r \in Readers : ~Alive(r)
       /\ \E sz \in ScreenSizes : TouchInit(sz, FALSE, <<WideRange>>, "ok")
    \/ Close
    \/ Tick(MIN_CALLBACK_INTERVAL, MaxTicks)
    \/ ReaderSteps(UploadEvents)
    \/ SynthSteps(UploadCalls)

SpecUpload == Init /\ [][NextUpload]_vars

(* ------------------------------------------------------------------ *)
(* SpecGesture: one device, recognition enabled, ingested contacts    *)
(* ------------------------------------------------------------------ *)
GestureEvents == {Tracking(7), Tracking(-1), PositionX(60), Report}

GestureTicks == {100, 600}

\* the application configures recognition, then initializes once
GestureSetup ==
    \/ /\ ~g_initialized
       /\ \/ EnableGestureRecognition(TRUE)
          \/ SetGestureCallback(TRUE)
    \/ /\ ~g_initialized
       /\ g_gestureEnabled
       /\ g_gestureCallback
       /\ TouchInit(Vec(50, 100), TRUE, <<WideRange>>, "ok")

NextGesture ==
    \/ GestureSetup
    \/ \E d \in GestureTicks : Tick(d, MaxGestureTicks)
    \/ ReaderSteps(GestureEvents)

SpecGesture == Init /\ [][NextGesture]_vars

(* ------------------------------------------------------------------ *)
(* SpecSynth: one device, recognition enabled, synthetic contacts     *)
(* ------------------------------------------------------------------ *)
SynthEvents == {Report}

SynthCalls == {<<"down", 10, 0, 0>>, <<"move", 10, 0, 0>>, <<"up", 0, 0, 0>>}

NextSynth ==
    \/ GestureSetup
    \/ \E d \in GestureTicks : Tick(d, MaxGestureTicks)
    \/ ReaderSteps(SynthEvents)
    \/ SynthSteps(SynthCalls)

SpecSynth == Init /\ [][NextSynth]_vars

(* ------------------------------------------------------------------ *)
(* SpecPinch: one device, recognition enabled, two ingested contacts  *)
(* ------------------------------------------------------------------ *)
PinchEvents == {SlotIndex(1), Tracking(7), PositionX(60), PositionX(100), Report}

NextPinch ==
    \/ GestureSetup
    \/ ReaderSteps(PinchEvents)

SpecPinch == Init /\ [][NextPinch]_vars

(* ------------------------------------------------------------------ *)
(* SpecInitFail: Init succeeds or fails, then synthetic input         *)
(* ------------------------------------------------------------------ *)
InitOutcomes == {"nodir", "nouinput", "nocreate", "ok"}

InitFailCalls == {<<"down", 10, 0, 0>>, <<"move", 20, 0, 0>>, <<"up", 0, 0, 0>>}

NextInitFail ==
    \/ \E sz \in ScreenSizes, ro \in BOOLEAN, prof \in Profiles, o \in InitOutcomes :
          TouchInit(sz, ro, prof, o)
    \/ Close
    \/ SynthSteps(InitFailCalls)
    \/ TouchAt(Vec(10, 0), 50)
    \/ Swipe(Vec(0, 0), Vec(20, 0), 32)

SpecInitFail == Init /\ [][NextInitFail]_vars

(* ------------------------------------------------------------------ *)
(* SpecExit: sessions of one device, reader threads scheduled fairly  *)
(* ------------------------------------------------------------------ *)
ExitEvents == {Tracking(7), Report}

NextExit ==
    \/ \E sz \in ScreenSizes : TouchInit(sz, TRUE, <<WideRange>>, "ok")
    \/ Close
    \/ ReaderSteps(ExitEvents)

\* every reader thread is scheduled, each of its read() calls returns, and it
\* gets the lock it spins for
ReaderFairness ==
    \A r \in Readers :
        /\ WF_vars(ReaderLoop(r))
        /\ WF_vars(\E n \in 0..MaxBatch : ReaderRead(r, n))
        /\ SF_vars(ReaderLock(r))
        /\ WF_vars(\E e \in ExitEvents : ReaderEvent(r, e))
        /\ WF_vars(ReaderUnlock(r))

SpecExit == Init /\ [][NextExit]_vars /\ ReaderFairness

(* ------------------------------------------------------------------ *)
(* SpecRate: two devices, grab-and-inject mode, recognition enabled   *)
(* ------------------------------------------------------------------ *)
\* a contact arrives at the first device only; both devices report boundaries
RateEvents(dev) == IF dev = 1 THEN {Tracking(7), Report} ELSE {Report}

RateTicks == {2}

\* the application configures recognition, then initializes once
RateSetup ==
    \/ /\ ~g_initialized
       /\ \/ EnableGestureRecognition(TRUE)
          \/ SetGestureCallback(TRUE)
    \/ /\ ~g_initialized
       /\ g_gestureEnabled
       /\ g_gestureCallback
       /\ TouchInit(Vec(50, 100), FALSE, <<WideRange, WideRange>>, "ok")

NextRate ==
    \/ RateSetup
    \/ \E d \in RateTicks : Tick(d, MaxRateTicks)
    \/ \E r \in Readers : ReaderLoop(r)
    \/ \E r \in Readers, n \in 0..MaxBatch : ReaderRead(r, n)
    \/ \E r \in Readers : ReaderLock(r)
    \/ \E r \in Readers : \E e \in RateEvents(reader[r].dev) : ReaderEvent(r, e)
    \/ \E r \in Readers : ReaderUnlock(r)

SpecRate == Init /\ [][NextRate]_vars

(* ------------------------------------------------------------------ *)
(* SpecDeliver: one device, either mode, with and without an observer *)
(* ------------------------------------------------------------------ *)
DeliverEvents == {Tracking(7), Report}

\* the application registers or removes the observer at any time, and
\* initializes again, in either mode, after the reader thread has left its loop
NextDeliver ==
    \/ \E callback \in BOOLEAN : SetTouchCallback(callback)
    \/ /\ \A r \in Readers : ~Alive(r)
       /\ \E readOnly \in BOOLEAN : TouchInit(Vec(50, 100), readOnly, <<WideRange>>, "ok")
    \/ Close
    \/ Tick(MIN_CALLBACK_INTERVAL, MaxRateTicks)
    \/ ReaderSteps(DeliverEvents)

SpecDeliver == Init /\ [][NextDeliver]_vars

(* ------------------------------------------------------------------ *)
(* SpecCap: Upload over registries with up to ten fingers per device  *)
(* ------------------------------------------------------------------ *)
\* device i with contacts in its first k slots, as the reader thread leaves them
\* after a tracking id and a position for each
CapDevice(i, k) ==
    [TouchDevice(i + 2, 100, 200) EXCEPT
        !.fingers = [s \in Slots |->
                        IF s < k
                        THEN [TrackingId(TouchPoint, i - 1, s, 7, BootTime)
                                 EXCEPT !.pos = Vec(MAX_FINGERS * (i - 1) + s, i)]
                        ELSE TouchPoint]]

\* an initialized subsystem in grab-and-inject mode with CapDevices devices, any
\* number of fingers down on each
InitCap ==
    /\ g_initialized = TRUE
    /\ g_readOnly = FALSE
    /\ \E k \in [1..CapDevices -> 0..MAX_FINGERS] :
           g_devices = [i \in 1..CapDevices |-> CapDevice(i, k[i])]
    /\ g_outputFd = CapDevices + 3
    /\ g_orientation = 0
    /\ g_touchScale = Vec(1, 1)
    /\ g_screenSize = Vec(200, 100)
    /\ g_gestureEnabled = FALSE
    /\ g_touchCallback = FALSE
    /\ g_gestureCallback = FALSE
    /\ g_gestureState = GestureStateInit
    /\ g_lock = LockFree
    /\ isFirstDown = TRUE
    /\ lastCallbackTime = 0
    /\ now = BootTime
    /\ ticks = 0
    /\ reader = [r \in Readers |-> NoReader]
    /\ app = AppIdle
    /\ lastWrite = NoWrite
    /\ held = {}
    /\ win = NoWindow
    /\ pin = NoPin
    /\ dlv = NoDelivery
    /\ closed = NoClosed
    /\ prevClosed = NoClosed
    /\ syn = NoSyn
    /\ xf = NoXf

\* Upload() over the registry as it stands
NextCap ==
    /\ Upload(g_devices)
    /\ UNCHANGED <<configVars, initVars, clockVars, gestureVars, g_devices, g_lock,
                   lastCallbackTime, reader, app, held, syn, xf>>

SpecCap == InitCap /\ [][NextCap]_vars

(* ------------------------------------------------------------------ *)
(* SpecSwipe: Swipe while the reader thread decodes a contact         *)
(* ------------------------------------------------------------------ *)
\* a contact the kernel reports in the tenth slot of the device
SwipeEvents == {SlotIndex(9), PositionX(60), Report}

SwipeDurations == {0, 16, 32, 48}

SwipeStart == Vec(10, 0)

SwipeEnd == Vec(40, 0)

NextSwipe ==
    \/ /\ ~g_initialized
       /\ TouchInit(Vec(50, 100), FALSE, <<WideRange>>, "ok")
    \/ \E durationMs \in SwipeDurations : Swipe(SwipeStart, SwipeEnd, durationMs)
    \/ DownEnter \/ DownBody
    \/ MoveEnter \/ MoveBody
    \/ UpEnter \/ UpBody
    \/ Tick(MIN_CALLBACK_INTERVAL, MaxTicks)
    \/ ReaderSteps(SwipeEvents)

SpecSwipe == Init /\ [][NextSwipe]_vars

(* ------------------------------------------------------------------ *)
(* SpecEdge: one device, recognition enabled, contacts come and go    *)
(* ------------------------------------------------------------------ *)
EdgeEvents == {Tracking(7), Tracking(-1), PositionX(60), Report}

EdgeTick == 100

NextEdge ==
    \/ GestureSetup
    \/ g_initialized /\ Tick(EdgeTick, MaxTicks)
    \/ ReaderSteps(EdgeEvents)

SpecEdge == Init /\ [][NextEdge]_vars

(* ------------------------------------------------------------------ *)
(* SpecSlot: one device, slot indexes inside and outside the array    *)
(* ------------------------------------------------------------------ *)
SlotEvents ==
    {SlotIndex(-1), SlotIndex(3), SlotIndex(12), Tracking(7), Tracking(-1),
     PositionX(60), Report}

NextSlot ==
    \/ /\ ~g_initialized
       /\ \E readOnly \in BOOLEAN : TouchInit(Vec(50, 100), readOnly, <<WideRange>>, "ok")
    \/ ReaderSteps(SlotEvents)

SpecSlot == Init /\ [][NextSlot]_vars

(* ------------------------------------------------------------------ *)
(* SpecMirror: one device, grab-and-inject mode, scheduled threads    *)
(* ------------------------------------------------------------------ *)
MirrorEvents == {Tracking(7), Tracking(-1), Report}

MirrorTick == 2

\* the application configures recognition, then initializes once, to inject
MirrorSetup ==
    \/ /\ ~g_initialized
       /\ \/ EnableGestureRecognition(TRUE)
          \/ SetGestureCallback(TRUE)
    \/ /\ ~g_initialized
       /\ g_gestureEnabled
       /\ g_gestureCallback
       /\ TouchInit(Vec(50, 100), FALSE, <<WideRange>>, "ok")

NextMirror ==
    \/ MirrorSetup
    \/ Tick(MirrorTick, MaxRateTicks)
    \/ ReaderSteps(MirrorEvents)

\* the clock advances and every reader thread is scheduled and gets the lock it
\* spins for; a read() returns only when the hardware has events
MirrorFairness ==
    /\ WF_vars(Tick(MirrorTick, MaxRateTicks))
    /\ \A r \in Readers :
          /\ WF_vars(ReaderLoop(r))
          /\ SF_vars(ReaderLock(r))
          /\ WF_vars(\E e \in MirrorEvents : ReaderEvent(r, e))
          /\ WF_vars(ReaderUnlock(r))

SpecMirror == Init /\ [][NextMirror]_vars /\ MirrorFairness

(* ------------------------------------------------------------------ *)
(* SpecIntegrity: a synthetic contact and a contact in the tenth slot *)
(* ------------------------------------------------------------------ *)
IntegrityEvents == {SlotIndex(9), Tracking(7), Tracking(-1), Report}

\* Down(10, 0, 5), Move(20, 0) and Up()
IntegrityDown == <<"down", 10, 0, 5>>

IntegrityCalls == {IntegrityDown, <<"move", 20, 0, 0>>, <<"up", 0, 0, 0>>}

NextIntegrity ==
    \/ /\ ~g_initialized
       /\ TouchInit(Vec(50, 100), TRUE, <<WideRange>>, "ok")
    \/ ReaderSteps(IntegrityEvents)
    \/ SynthSteps(IntegrityCalls)

SpecIntegrity == Init /\ [][NextIntegrity]_vars

(* ------------------------------------------------------------------ *)
(* SpecXform: the coordinate transforms                               *)
(* ------------------------------------------------------------------ *)
XformPoints == {Vec(x, y) : x \in {0, 20, 40}, y \in {0, 20, 60}}

NextXform ==
    \/ \E sz \in ScreenSizes : TouchInit(sz, TRUE, <<WideRange>>, "ok")
    \/ \E o \in 0..3 : SetOrientation(o)
    \/ \E p \in XformPoints : RoundTrip(p)

SpecXform == Init /\ [][NextXform]_vars

(* ------------------------------------------------------------------ *)
(* SpecProgress: one session, reader threads against Down, Move, Up   *)
(* ------------------------------------------------------------------ *)
ProgressEvents == {Tracking(7), Report}

ProgressCalls == {<<"down", 10, 0, 0>>, <<"move", 20, 0, 0>>, <<"up", 0, 0, 0>>}

NextProgress ==
    \/ /\ ~g_initialized
       /\ \E readOnly \in BOOLEAN : TouchInit(Vec(50, 100), readOnly, <<WideRange>>, "ok")
    \/ ReaderSteps(ProgressEvents)
    \/ SynthSteps(ProgressCalls)

\* a thread inside its locked section is scheduled until it has released the
\* lock, and a thread spinning for a lock that is released again and again gets
\* it; a read() may block for ever
ProgressFairness ==
    /\ \A r \in Readers :
          /\ SF_vars(ReaderLock(r))
          /\ WF_vars(\E e \in ProgressEvents : ReaderEvent(r, e))
          /\ WF_vars(ReaderUnlock(r))
    /\ SF_vars(DownEnter) /\ SF_vars(MoveEnter) /\ SF_vars(UpEnter)
    /\ WF_vars(DownBody) /\ WF_vars(MoveBody) /\ WF_vars(UpBody)

SpecProgress == Init /\ [][NextProgress]_vars /\ ProgressFairness

(* ------------------------------------------------------------------ *)
(* Properties                                                         *)
(* ------------------------------------------------------------------ *)
\* how many gestures of a type a sequence of delivered gestures holds
Count(type, log) == Cardinality({i \in 1..Len(log) : log[i].type = type})

\* the thread is inside its slot-mutating and uploading section
InSection(t) ==
    IF t = AppThread THEN app.pc \in {"in_down", "in_move", "in_up"}
    ELSE reader[t[2]].pc = "proc"

Threads == {AppThread} \cup {ReaderThread(r) : r \in Readers}

\* C1: for every orientation code and every point p,
\* ScreenToTouch(TouchToScreen(p)) equals p.
C1_RoundTrip == xf.valid => xf.back = xf.p

\* C2: reader threads processing a batch and the calls Down, Move and Up are
\* mutually exclusive: no two threads are inside their slot-mutating and
\* uploading section at once, and the one inside holds the lock.
C2_MutualExclusion ==
    \A t \in Threads : InSection(t) =>
        /\ g_lock = t
        /\ \A u \in Threads \ {t} : ~InSection(u)

\* C2, its case: Down is inside its section while a reader thread that has read
\* a batch waits for the lock
C2_Contended ==
    /\ app.pc = "in_down"
    /\ \E r \in Readers : reader[r].pc = "lock"

\* C3: any two slots that are down at the same time on the same device have
\* distinct identity values, however the contacts arrived.
C3_DistinctIds ==
    \A d \in DeviceIdx : \A s1, s2 \in Slots :
        (/\ s1 # s2
         /\ g_devices[d].fingers[s1].isDown
         /\ g_devices[d].fingers[s2].isDown)
        => g_devices[d].fingers[s1].id # g_devices[d].fingers[s2].id

\* C4: GetTouchCount() equals the number of contacts that have gone down and
\* not lifted, however the contacts were delivered.
C4_TouchCount == GetTouchCount = Cardinality(held)

\* the write was an Upload with no finger down
ZeroFingerWrite == lastWrite.fd > 0 /\ lastWrite.buf # <<>> /\ lastWrite.fingers = 0

ReportSeparator == InputEvent("EV_SYN", "SYN_MT_REPORT", 0)

Synchronization == InputEvent("EV_SYN", "SYN_REPORT", 0)

KeyUps == <<InputEvent("EV_KEY", "BTN_TOUCH", 0), InputEvent("EV_KEY", "BTN_TOOL_FINGER", 0)>>

\* C5: every buffer Upload writes when no finger is down holds no position or
\* tracking-id event, starts with the report-separator and ends with the final
\* synchronization event; the separator is immediately followed by the
\* synchronization event, except in the first zero-finger Upload after a
\* non-empty one, where the two key-up events stand between them.
C5_ZeroFingerBuffer ==
    ZeroFingerWrite =>
        /\ \A i \in 1..Len(lastWrite.buf) : lastWrite.buf[i].type # "EV_ABS"
        /\ lastWrite.buf = <<ReportSeparator>>
                           \o (IF lastWrite.first THEN <<>> ELSE KeyUps)
                           \o <<Synchronization>>

\* C5, its case: the first zero-finger Upload after a non-empty one was written
C5_FirstEmptyWritten == ZeroFingerWrite /\ ~lastWrite.first

\* C5 as stated: every zero-finger buffer ends with the report-separator
\* immediately followed by the final synchronization event.
C5_SeparatorThenSync ==
    ZeroFingerWrite =>
        /\ Len(lastWrite.buf) >= 2
        /\ lastWrite.buf[Len(lastWrite.buf) - 1] = ReportSeparator
        /\ lastWrite.buf[Len(lastWrite.buf)] = Synchronization

\* the closed gesture window has the shape of a tap: one contact, lifted where
\* it went down, the lift's report less than tapMaxDuration after the down
TapShaped(c) ==
    /\ c.valid
    /\ c.single
    /\ ~c.moved
    /\ c.end - c.t0 < tapMaxDuration

\* C6: one ingested contact that goes down and lifts at the same point within
\* tapMaxDuration causes exactly one Tap, and no other gesture, to be delivered.
C6_OneTap ==
    (TapShaped(closed) /\ ~prevClosed.valid)
    => closed.log \o closed.term = <<[GestureData EXCEPT !.type = "Tap",
                                                      !.position = closed.p0]>>

\* C7: a synthetic Down followed by Up with a hold under tapMaxDuration leaves
\* slot 9 of device 0 up, GetTouchCount() at 0, and exactly one Tap delivered,
\* once a report boundary has followed the Up.
C7_SyntheticTap ==
    (/\ syn.phase = "done"
     /\ syn.seen
     /\ syn.end - syn.t0 < tapMaxDuration
     /\ held = {}
     /\ app.pc = "idle")
    => /\ ~g_devices[1].fingers[SYNTH_SLOT].isDown
       /\ GetTouchCount = 0
       /\ Count("Tap", syn.log) = 1

\* C8: two successive taps at the same point, the second completing within
\* doubleTapMaxInterval of the first, deliver Tap and then DoubleTap.
C8_TapThenDoubleTap ==
    (/\ TapShaped(prevClosed)
     /\ TapShaped(closed)
     /\ closed.p0 = prevClosed.p0
     /\ closed.end - prevClosed.end < doubleTapMaxInterval)
    => /\ Count("Tap", prevClosed.term) = 1
       /\ Count("DoubleTap", closed.term) = 1
       /\ Count("Tap", closed.term) = 0

\* C9: a single contact held without moving, at any position, with report
\* boundaries past longPressMinDuration after the down, causes exactly one
\* LongPress to be delivered.
C9_OneLongPress ==
    (/\ win.active
     /\ win.arrivals = 1
     /\ ~win.moved
     /\ win.at - win.t0 > longPressMinDuration)
    => Count("LongPress", win.log) = 1

\* C10: a single contact that moves farther than swipeMinDistance from where
\* it went down and then lifts causes one Swipe to be delivered at the lift's
\* report boundary, with the distance and direction of the displacement.
C10_Swipe ==
    (/\ closed.valid
     /\ closed.single
     /\ LongerThan(VecSub(closed.last, closed.p0), swipeMinDistance))
    => /\ Len(closed.term) = 1
       /\ closed.term[1].type = "Swipe"
       /\ closed.term[1].distance = Length(VecSub(closed.last, closed.p0))
       /\ closed.term[1].direction =
              VecDiv(VecSub(closed.last, closed.p0), closed.term[1].distance)

\* the separation of the two slots of a function from two slots to positions
Separation(f) ==
    LET a == CHOOSE s \in DOMAIN f : \A u \in DOMAIN f : s <= u
        b == CHOOSE s \in DOMAIN f : \A u \in DOMAIN f : s >= u
    IN  Length(VecSub(f[a], f[b]))

Midpoint(f) ==
    LET a == CHOOSE s \in DOMAIN f : \A u \in DOMAIN f : s <= u
        b == CHOOSE s \in DOMAIN f : \A u \in DOMAIN f : s >= u
    IN  VecDiv(VecAdd(f[a], f[b]), 2)

\* C11: when exactly two contacts are down on one device and their separation
\* differs from the separation of their first reported positions by more than
\* pinchMinDistance, the report boundary delivers a Pinch whose scale is the
\* current separation over that first separation and whose position is their
\* midpoint.
C11_Pinch ==
    (/\ Cardinality(DOMAIN pin.cur) = 2
     /\ DOMAIN pin.firsts = DOMAIN pin.cur
     /\ Abs(Separation(pin.cur) - Separation(pin.firsts)) > pinchMinDistance)
    => \E i \in 1..Len(pin.out) :
          /\ pin.out[i].type = "Pinch"
          /\ pin.out[i].scale = <<Separation(pin.cur), Separation(pin.firsts)>>
          /\ pin.out[i].position = Midpoint(pin.cur)

\* C12: after Init returns false the subsystem is uninitialized and every
\* call to Down, Move, Up, TouchAt or Swipe is a no-op: a step of such a call
\* changes no slot and writes nothing.
C12_FailedInitNoOp ==
    [][(~g_initialized /\ InSection(AppThread))
       => (g_devices' = g_devices /\ lastWrite' = lastWrite)]_vars

\* C13: after Close() clears the running flag, every reader thread started by
\* the preceding Init eventually exits its loop, its read() calls returning.
C13_ReadersExit ==
    \A r \in Readers : (~g_initialized /\ Alive(r)) ~> ~Alive(r)

\* C14: no Init or Close call adds, removes or clears registry entries while a
\* reader thread is inside its locked batch processing or a synthetic-input
\* call is inside its locked section.
C14_RegistryUnderLock ==
    [][(\E t \in Threads : InSection(t))
       => Registry(g_devices') = Registry(g_devices)]_vars

C16_Delivery ==
    (dlv.valid /\ ~dlv.limited) =>
        /\ dlv.observer => (dlv.called /\ dlv.arg = dlv.reg /\ ~dlv.uploaded)
        /\ (~dlv.observer /\ ~dlv.readOnly) => (dlv.uploaded /\ ~dlv.called)
        /\ (~dlv.observer /\ dlv.readOnly) => (~dlv.called /\ ~dlv.uploaded)

\* C16, its case: a boundary that is not rate-limited, in grab-and-inject mode
\* with an observer registered, has called the observer with the registry
C16_ObserverCalled ==
    /\ dlv.valid
    /\ ~dlv.limited
    /\ dlv.observer
    /\ ~dlv.readOnly
    /\ dlv.called
    /\ dlv.arg # <<>>

\* the two key-down events lead the buffer
HasKeyDown(buf) == Len(buf) >= 2 /\ SubSeq(buf, 1, 2) = downEvent

\* the two key-up events are in the buffer
HasKeyUp(buf) ==
    \E i \in 1..(Len(buf) - 1) : <<buf[i], buf[i + 1]>> = KeyUps

\* C17: in the buffers Upload writes to a virtual device, the key-down events
\* are prefixed exactly on a non-empty Upload that is the first to the device
\* or follows an empty one, and the key-up events appear exactly on an empty
\* Upload that follows a non-empty one, also for the virtual device created by
\* an Init that follows a Close.
C17_KeyAlternation ==
    lastWrite.fd > 0 =>
        /\ HasKeyDown(lastWrite.buf) <=> (lastWrite.fingers > 0 /\ lastWrite.prev # "touch")
        /\ HasKeyUp(lastWrite.buf) <=> (lastWrite.fingers = 0 /\ lastWrite.prev = "touch")

\* the first n elements of a sequence
Take(q, n) == SubSeq(q, 1, IF n < Len(q) THEN n ELSE Len(q))

\* one group of six events per finger, in order
RECURSIVE Groups(_)
Groups(fs) == IF fs = <<>> THEN <<>> ELSE FingerGroup(Head(fs)) \o Groups(Tail(fs))

\* C18: with D > 0 fingers down across all devices, what Upload writes is, after
\* the key-down prefix if there is one, exactly min(D, 20) groups of six events,
\* one per down finger in registry order, followed by one final synchronization
\* event: never more than 20 groups.
C18_GroupsCapped ==
    (lastWrite.fd > 0 /\ lastWrite.fingers > 0) =>
        LET body == IF HasKeyDown(lastWrite.buf)
                    THEN SubSeq(lastWrite.buf, 3, Len(lastWrite.buf))
                    ELSE lastWrite.buf
        IN  body = Groups(Take(DownFingers(g_devices, 1), UPLOAD_CAP))
                   \o <<Synchronization>>

\* the number of intermediate moves of a swipe of durationMs
Intermediate(durationMs) ==
    IF durationMs \div 16 - 1 > 0 THEN durationMs \div 16 - 1 ELSE 0

\* C19: when Swipe(start, end, durationMs) is about to lift the contact it has
\* made one contact-down at start, then durationMs/16 - 1 intermediate moves
\* when that is positive and none otherwise, then one move to end; each of them
\* uploaded; the contact-up is its last call; and slot 9 of device 0 is at end,
\* in device units, in the last upload before the lift.
C19_Swipe ==
    (app.pc = "in_up" /\ app.plan # <<>>) =>
        LET start == app.plan[1]
            end == app.plan[2]
            k == Intermediate(app.plan[3])
        IN  /\ Len(app.done) = k + 2
            /\ app.done[1].op = "down"
            /\ app.done[1].pos = VecMul(start, g_touchScale)
            /\ \A i \in 2..(k + 2) : app.done[i].op = "move"
            /\ app.done[k + 2].pos = VecMul(end, g_touchScale)
            /\ \A i \in 1..(k + 2) : app.done[i].wrote
            /\ app.rest = <<>>
            /\ lastWrite.fingers > 0
            /\ LastGroupPos(lastWrite.buf) = VecMul(end, g_touchScale)

\* C20: within one gesture window of a device, from its first active slot until
\* it has none again, LongPress is delivered at most once, whatever report
\* boundaries of other devices fall in between.
C20_LongPressOncePerWindow ==
    win.active => Count("LongPress", win.log) <= 1

\* C21: while a gesture window of the device is open, the recognition context
\* holds the window's start: a start time that lies between the arrival of the
\* first contact and the latest report boundary, and, for a window of a single
\* contact, the position that contact had at the window's first report boundary.
C21_WindowStartRecorded ==
    win.active =>
        /\ win.t0 <= g_gestureState.touchStartTime
        /\ g_gestureState.touchStartTime <= win.at
        /\ win.arrivals = 1 => g_gestureState.touchStartPos = win.p0

\* the gesture types that classify a window when it ends
Terminal == {"Tap", "DoubleTap", "Swipe"}

\* C22: a Tap, DoubleTap or Swipe is delivered only at a report boundary where
\* the device has no slot down and had one or more down at the report boundary
\* before; a further report boundary of a device that stays without a slot
\* down delivers no gesture.
C22_TerminalOnEdge ==
    /\ \A i \in 1..Len(pin.out) :
          pin.out[i].type \in Terminal => (DOMAIN pin.cur = {} /\ pin.was)
    /\ (dlv.valid /\ dlv.enabled /\ dlv.idle /\ ~pin.was) => pin.out = <<>>

\* C22, its case: after a window of the device has closed, a further report
\* boundary with no slot down has delivered no gesture
C22_IdleAgain ==
    /\ closed.valid
    /\ dlv.valid
    /\ dlv.enabled
    /\ dlv.idle
    /\ DOMAIN pin.cur = {}
    /\ ~pin.was
    /\ pin.out = <<>>

\* C23: the step of Close that clears the synthetic-event buffer, the one that
\* takes the subsystem from initialized to uninitialized, is made by a thread
\* that holds the shared lock.
C23_BufferUnderLock ==
    [][(g_initialized /\ ~g_initialized') => g_lock = AppThread]_vars

\* C24: a reader thread's active slot index is always in 0..9, an index below 0
\* or of 10 and more having selected slot 0; and the tracking id that follows
\* such an index is applied to slot 0 of the device, not dropped.
C24_SlotInRange ==
    /\ [](\A r \in Readers :
            /\ reader[r].slot \in Slots
            /\ reader[r].raw \notin Slots => reader[r].slot = 0)
    /\ [][\A r \in Readers :
            (/\ reader[r].raw \notin Slots
             /\ <<reader[r].dev, reader[r].raw>> \in held' \ held)
            => g_devices'[reader[r].dev].fingers[0].isDown]_vars

\* C24, its case: a contact that arrived under a slot index outside 0..9 is
\* held, and slot 0 of its device is down
C24_OutOfRangeApplied ==
    \E r \in Readers :
        /\ reader[r].raw \notin Slots
        /\ <<reader[r].dev, reader[r].raw>> \in held
        /\ InRegistry(r)
        /\ g_devices[reader[r].dev].fingers[0].isDown

\* the step is a report boundary that reader thread r processes for its device
ReportBoundary(r) ==
    /\ reader[r].pc = "proc"
    /\ reader'[r].left = reader[r].left - 1
    /\ InRegistry(r)
    /\ g_devices' = [g_devices EXCEPT ![reader[r].dev] = ReportVelocity(@, now)]
    /\ dlv' = DeliveryStep(dlv, g_devices', g_devices'[reader[r].dev])
    /\ lastCallbackTime' = now \/ dlv'.limited

\* C25: after every report boundary a reader thread processes, each slot of the
\* device that is down has velocity equal to its position minus its origin.
C25_VelocityAtBoundary ==
    [][\A r \in Readers :
          ReportBoundary(r) =>
              \A s \in Slots :
                  LET finger == g_devices'[reader[r].dev].fingers[s]
                  IN  finger.isDown => finger.velocity = VecSub(finger.pos, finger.startPos)]_vars

\* C26: while the subsystem is initialized, every running reader thread was
\* started by the latest Init and refers to a device of the current registry,
\* and no two running reader threads serve the same device.
C26_ReadersOfCurrentRegistry ==
    g_initialized =>
        /\ \A r \in Readers : Alive(r) => (~reader[r].stale /\ InRegistry(r))
        /\ \A r1, r2 \in Readers :
              (Alive(r1) /\ Alive(r2) /\ reader[r1].dev = reader[r2].dev) => r1 = r2

\* C27: in grab-and-inject mode with no observer, once a report boundary has
\* been processed with no contact down while the last buffer written to the
\* virtual device reports a finger down, a zero-finger Upload is eventually
\* written, unless the hardware sends further events first.
C27_LiftMirrored ==
    (/\ g_initialized
     /\ ~g_readOnly
     /\ ~g_touchCallback
     /\ dlv.valid
     /\ dlv.idle
     /\ GetTouchCount = 0
     /\ lastWrite.fingers > 0)
    ~> (lastWrite.fingers = 0 \/ \E r \in Readers : reader[r].left > 0)

\* C28: from Down() until Up(), slot 9 of device 0 is down with the identity
\* and the origin Down gave it, whatever the reader thread ingests.
C28_SyntheticContactKept ==
    (g_initialized /\ SynContact \in held) =>
        LET touch == g_devices[1].fingers[SYNTH_SLOT]
        IN  /\ touch.isDown
            /\ touch.id = IntegrityDown[4]
            /\ touch.startPos = VecMul(Vec(IntegrityDown[2], IntegrityDown[3]), g_touchScale)

\* C29: while the subsystem is not initialized, after an Init that returned
\* false as after a Close, the registry is empty: no device is left registered,
\* open and grabbed.
C29_NothingLeftOpen ==
    ~g_initialized => Registry(g_devices) = <<>>

====
